---- MODULE Spec2Model ----
(***************************************************************************)
(* Model of alert/check_forecast.py: the wind-forecast analysis            *)
(* (analyze_forecast), the report (format_message), the SMTP session       *)
(* (send_email) and the orchestration with its exit codes (main).          *)
(*                                                                         *)
(* Dates are day numbers, a timestamp is a number of hours (24 per day),   *)
(* wind speeds are whole metres per second, and knots are fixed-point      *)
(* numbers with eight decimals, kept as [whole, frac] so that the products *)
(* stay inside TLC's integers.                                             *)
(***************************************************************************)
EXTENDS Integers, Sequences, FiniteSets, TLC

\* Bounds of the model.
MaxReadings == 3   \* longest time / windspeed array of the analysed inputs
MaxDays == 3       \* largest FORECAST_DAYS

\* Python's None (os.getenv of an unset variable, a result not yet computed).
None == "<None>"

\* ------------------------------------------------------------------------
\* Fixed-point knots
\* ------------------------------------------------------------------------
Scale == 10^8

\* The factor 1.94384449 of mps_to_knots.
KnotsPerMps == [whole |-> 1, frac |-> 94384449]

Knots(w, f) == [whole |-> w, frac |-> f]

\* a <= b on knots.
KnotsLeq(a, b) == a.whole < b.whole \/ (a.whole = b.whole /\ a.frac <= b.frac)

mps_to_knots(mps) ==
    LET p == mps * KnotsPerMps.frac
    IN  [whole |-> mps * KnotsPerMps.whole + (p \div Scale), frac |-> p % Scale]

\* ------------------------------------------------------------------------
\* analyze_forecast
\* ------------------------------------------------------------------------
\* dict.get(key, default)
Get(d, k, default) == IF k \in DOMAIN d THEN d[k] ELSE default

\* The empty dict.
EmptyDict == [k \in {} |-> 0]

\* zip(times, speeds): as long as the shorter of the two.
Zip(a, b) ==
    LET n == IF Len(a) <= Len(b) THEN Len(a) ELSE Len(b)
    IN  [i \in 1..n |-> <<a[i], b[i]>>]

\* dt.datetime.fromisoformat(t_iso) and t.date()
fromisoformat(t_iso) == [date |-> t_iso \div 24, hour |-> t_iso % 24]
DateOf(t_iso) == fromisoformat(t_iso).date

\* ok = cfg["MIN_WIND_KNOTS"] <= kts <= cfg["MAX_WIND_KNOTS"]
QualifiesStrictMax(kts, c) ==
    /\ KnotsLeq(c.MIN_WIND_KNOTS, kts)
    /\ KnotsLeq(kts, c.MAX_WIND_KNOTS)
    /\ kts # c.MAX_WIND_KNOTS

Qualifies(kts, c) ==
    KnotsLeq(c.MIN_WIND_KNOTS, kts) /\ KnotsLeq(kts, c.MAX_WIND_KNOTS)

\* day_hours.setdefault(date, 0); if ok: day_hours[date] += 1
DictPut(d, k, v) == [x \in (DOMAIN d) \cup {k} |-> IF x = k THEN v ELSE d[x]]

RECURSIVE DayHoursLoop(_, _, _, _)
DayHoursLoop(pairs, i, day_hours, c) ==
    IF i > Len(pairs) THEN day_hours
    ELSE LET date == DateOf(pairs[i][1])
             kts == mps_to_knots(pairs[i][2])
             ok == Qualifies(kts, c)
             dh0 == DictPut(day_hours, date, Get(day_hours, date, 0))
             dh1 == IF ok THEN DictPut(dh0, date, dh0[date] + 1) ELSE dh0
         IN  DayHoursLoop(pairs, i + 1, dh1, c)

DayHours(times, speeds, c) == DayHoursLoop(Zip(times, speeds), 1, EmptyDict, c)

\* ordered: one (date, hours) entry for each of the next FORECAST_DAYS days.
RECURSIVE SortedKeys(_)
SortedKeys(S) ==
    IF S = {} THEN <<>>
    ELSE LET m == CHOOSE x \in S : \A y \in S : x <= y
         IN  <<m>> \o SortedKeys(S \ {m})

OrderedFromData(day_hours, td, n) ==
    LET ks == SortedKeys(DOMAIN day_hours)
    IN  [i \in 1..Len(ks) |-> <<ks[i], day_hours[ks[i]]>>]

Ordered(day_hours, td, n) ==
    [i \in 1..n |-> <<td + (i - 1), Get(day_hours, td + (i - 1), 0)>>]

\* The scan for runs of consecutive good days: acc = [runs, current].
RECURSIVE RunsLoop(_, _, _, _)
RunsLoop(ord, i, acc, minHours) ==
    IF i > Len(ord) THEN acc
    ELSE LET e == ord[i]
             next == IF e[2] >= minHours
                     THEN [runs |-> acc.runs, current |-> Append(acc.current, e)]
                     ELSE IF acc.current # <<>>
                          THEN [runs |-> Append(acc.runs, acc.current), current |-> <<>>]
                          ELSE acc
         IN  RunsLoop(ord, i + 1, next, minHours)

FindRunsNoFlush(ord, minHours) ==
    RunsLoop(ord, 1, [runs |-> <<>>, current |-> <<>>], minHours).runs

FindRuns(ord, minHours) ==
    LET acc == RunsLoop(ord, 1, [runs |-> <<>>, current |-> <<>>], minHours)
    IN  IF acc.current # <<>> THEN Append(acc.runs, acc.current) ELSE acc.runs

\* good_runs = [r for r in runs if len(r) >= cfg["REQUIRED_CONSECUTIVE_DAYS"]]
LongEnough(r, required) == Len(r) >= required
GoodRuns(rs, required) == SelectSeq(rs, LAMBDA r : LongEnough(r, required))

\* if not times or not speeds: raise ValueError(...)
NoDataOnlyTimes(times, speeds) == Len(times) = 0

NoData(times, speeds) == Len(times) = 0 \/ Len(speeds) = 0

analyze_forecast(d, c, td) ==
    LET times == Get(Get(d, "hourly", EmptyDict), "time", <<>>)
        speeds == Get(Get(d, "hourly", EmptyDict), "windspeed_10m", <<>>)
    IN  IF NoData(times, speeds)
        THEN [raised |-> "ValueError", ordered |-> <<>>, runs |-> <<>>, good_runs |-> <<>>]
        ELSE LET day_hours == DayHours(times, speeds, c)
                 ord == Ordered(day_hours, td, c.FORECAST_DAYS)
                 rs == FindRuns(ord, c.MIN_HOURS_PER_DAY)
             IN  [raised |-> None, ordered |-> ord, runs |-> rs,
                  good_runs |-> GoodRuns(rs, c.REQUIRED_CONSECUTIVE_DAYS)]

\* ------------------------------------------------------------------------
\* format_message
\* ------------------------------------------------------------------------
Subject == "Kitesurfing alert: good forecast on Hel Peninsula"

\* The report: a line per day of the window, the thresholds, and a
\* "start to end (n days)" line per run that is long enough.
RunLine(run) == [start |-> run[1][1], end |-> run[Len(run)][1], days |-> Len(run)]

format_message(rs, ord, c) ==
    LET shown == SelectSeq(rs, LAMBDA r : Len(r) >= c.REQUIRED_CONSECUTIVE_DAYS)
    IN  [summary |-> ord,
         thresholds |-> <<c.MIN_WIND_KNOTS, c.MAX_WIND_KNOTS, c.MIN_HOURS_PER_DAY>>,
         matching |-> [i \in 1..Len(shown) |-> RunLine(shown[i])]]

\* ------------------------------------------------------------------------
\* State
\* ------------------------------------------------------------------------
VARIABLES
    cfg,         \* load_env(): the thresholds and the SMTP settings
    dry_run,     \* args.dry_run
    today,       \* dt.date.today()
    pc,          \* where the run is
    data,        \* the fetched JSON document
    fetched,     \* "pending", "ok" or "failed"
    raised,      \* "pending", None, or the error analyze_forecast raised
    ordered, runs, good_runs,   \* what analyze_forecast returned
    stdout,      \* what was printed
    exit_code,   \* the process status; -1 while running
    send_calls,  \* invocations of send_email
    msg,         \* the EmailMessage of the send_email call
    conn,        \* the SMTP connection: "none", "open" or "closed"
    tls,         \* whether the connection was upgraded by STARTTLS
    smtp_log,    \* the SMTP operations performed, with their outcomes
    pending,     \* the exception leaving the with block, or None
    delivered    \* whether the server accepted the message

vars == <<cfg, dry_run, today, pc, data, fetched, raised, ordered, runs, good_runs,
          stdout, exit_code, send_calls, msg, conn, tls, smtp_log, pending, delivered>>

analysisVars == <<raised, ordered, runs, good_runs>>
smtpVars == <<send_calls, msg, conn, tls, smtp_log, pending, delivered>>
inputVars == <<cfg, dry_run, today>>

\* ------------------------------------------------------------------------
\* Inputs
\* ------------------------------------------------------------------------
\* Wind windows in knots: the default 12 - 30 (lines 16, 17), and one whose
\* ends are exactly 6 m/s and 10 m/s.
Windows == { <<Knots(12, 0), Knots(30, 0)>>, <<Knots(11, 66306694), Knots(19, 43844490)>> }

\* Speeds in m/s: 6 (11.66 kn), 10 (19.44 kn), 16 (31.10 kn).
Speeds == {6, 10, 16}

Hours == {0, 23}

Timestamp(date, hour) == date * 24 + hour

Thresholds(w, minHours, required, days) ==
    [MIN_WIND_KNOTS |-> w[1], MAX_WIND_KNOTS |-> w[2], MIN_HOURS_PER_DAY |-> minHours,
     REQUIRED_CONSECUTIVE_DAYS |-> required, FORECAST_DAYS |-> days]

SmtpSettings(host, user, pwd, from, to) ==
    [SMTP_HOST |-> host, SMTP_USER |-> user, SMTP_PASSWORD |-> pwd,
     EMAIL_FROM |-> from, EMAIL_TO |-> to]

FullSmtp == SmtpSettings("smtp.example.org", "kite", "secret", "from@example.org", "to@example.org")

\* A record with the fields of both.
Merge(a, b) == [k \in (DOMAIN a) \cup (DOMAIN b) |-> IF k \in DOMAIN a THEN a[k] ELSE b[k]]

Hourly(times, speeds) == [hourly |-> [time |-> times, windspeed_10m |-> speeds]]

\* Documents lacking the expected fields.
Lacking == { EmptyDict, [hourly |-> EmptyDict], [hourly |-> [time |-> <<Timestamp(1, 0)>>]],
             [hourly |-> [windspeed_10m |-> <<10>>]] }

SeqsUpTo(S, n) == UNION { [1..k -> S] : k \in 0..n }

\* Chronological series of at most MaxReadings timestamps, on the dates from
\* the day before today on.
TimeSeries(td) ==
    LET ts == { Timestamp(d, h) : d \in (td - 1)..(td + MaxDays - 2), h \in Hours }
    IN  { SortedKeys(S) : S \in { X \in SUBSET ts : Cardinality(X) <= MaxReadings } }

AnalysedData(td) ==
    { Hourly(t, s) : t \in TimeSeries(td), s \in SeqsUpTo(Speeds, MaxReadings) } \cup Lacking

AnalysedCfg ==
    { Merge(Thresholds(w, m, r, n), FullSmtp) :
        w \in Windows, m \in {1, 2}, r \in {1, 2}, n \in 1..MaxDays }

\* The example of a week with 7, 8, 0, 9, 10, 0, 0 good hours, under the
\* default thresholds (lines 16 - 20).
ExampleCounts == <<7, 8, 0, 9, 10, 0, 0>>

RECURSIVE ExampleTimes(_, _)
ExampleTimes(td, i) ==
    IF i > Len(ExampleCounts) THEN <<>>
    ELSE [h \in 1..ExampleCounts[i] |-> Timestamp(td + i - 1, h - 1)] \o ExampleTimes(td, i + 1)

ExampleData(td) ==
    LET t == ExampleTimes(td, 1) IN Hourly(t, [k \in 1..Len(t) |-> 10])

DefaultCfg == Merge(Thresholds(<<Knots(12, 0), Knots(30, 0)>>, 6, 2, 7), FullSmtp)

\* What the forecast service answers for `days` days from td: a reading for
\* each modelled hour of each day, or a document without data.
Responses(td, days) ==
    LET t == [i \in 1..(2 * days) |->
                Timestamp(td + ((i - 1) \div 2), IF i % 2 = 1 THEN 0 ELSE 23)]
    IN  { Hourly(t, s) : s \in [1..(2 * days) -> {6, 10}] }
        \cup { Hourly(<<>>, <<>>) } \cup Lacking

MainCfg ==
    { Merge(Thresholds(<<Knots(12, 0), Knots(30, 0)>>, 2, 2, n),
            SmtpSettings(h, u, p, f, t)) :
        n \in 1..MaxDays, h \in {None, "smtp.example.org"}, u \in {None, "kite"},
        p \in {None, "secret"}, f \in {None, "from@example.org"},
        t \in {None, "to@example.org"} }

\* ------------------------------------------------------------------------
\* Initial states
\* ------------------------------------------------------------------------
Blank ==
    /\ today = 1
    /\ fetched = "pending"
    /\ raised = "pending"
    /\ ordered = <<>>
    /\ runs = <<>>
    /\ good_runs = <<>>
    /\ stdout = <<>>
    /\ exit_code = -1
    /\ send_calls = 0
    /\ msg = None
    /\ conn = "none"
    /\ tls = FALSE
    /\ smtp_log = <<>>
    /\ pending = None
    /\ delivered = FALSE

\* main, after load_env (line 140).
Init ==
    /\ Blank
    /\ cfg \in MainCfg
    /\ dry_run \in BOOLEAN
    /\ data = EmptyDict
    /\ pc = "fetch"

\* A call analyze_forecast(data, cfg).
InitAnalyze ==
    /\ Blank
    /\ dry_run = FALSE
    /\ \/ cfg \in AnalysedCfg /\ data \in AnalysedData(1)
       \/ cfg = DefaultCfg /\ data = ExampleData(1)
    /\ pc = "analyze_forecast"

\* ------------------------------------------------------------------------
\* analyze_forecast as an operation of its own
\* ------------------------------------------------------------------------
AnalyzeCall ==
    /\ pc = "analyze_forecast"
    /\ LET r == analyze_forecast(data, cfg, today)
       IN  /\ raised' = r.raised
           /\ ordered' = r.ordered
           /\ runs' = r.runs
           /\ good_runs' = r.good_runs
    /\ pc' = "returned"
    /\ UNCHANGED <<inputVars, data, fetched, stdout, exit_code, smtpVars>>

NextAnalyze == AnalyzeCall

SpecAnalyze == InitAnalyze /\ [][NextAnalyze]_vars

\* ------------------------------------------------------------------------
\* main
\* ------------------------------------------------------------------------
Printed(text, arg) == [text |-> text, arg |-> arg]

\* sys.exit(status), or the end of main (status 0), or an exception nobody
\* catches (the interpreter prints the traceback on stderr and exits with 1).
Exit(status) == pc' = "done" /\ exit_code' = status

\* fetch_open_meteo raises: lines 143 - 145.
FetchFail ==
    /\ pc = "fetch"
    /\ fetched' = "failed"
    /\ stdout' = Append(stdout, Printed("Failed to fetch forecast:", None))
    /\ Exit(2)
    /\ UNCHANGED <<inputVars, data, analysisVars, smtpVars>>

\* fetch_open_meteo returns the document: line 142.
FetchOk ==
    /\ pc = "fetch"
    /\ \E d \in Responses(today, cfg.FORECAST_DAYS) : data' = d
    /\ fetched' = "ok"
    /\ pc' = "analyze"
    /\ UNCHANGED <<inputVars, analysisVars, stdout, exit_code, smtpVars>>

\* The summary of lines 150 - 152.
SummaryLines(ord) ==
    <<Printed("No suitable runs found. Summary:", None)>>
        \o [i \in 1..Len(ord) |-> Printed("day", ord[i])]

\* Where main goes after the analysis: lines 149, 157.
BranchIgnoringDryRun(good, dry) == IF good = <<>> THEN "summary" ELSE "send"

Branch(good, dry) ==
    IF good = <<>> THEN "summary" ELSE IF dry THEN "print" ELSE "send"

\* Lines 147 - 160: the analysis, then the summary, the dry run's print, or
\* on to send_email.
Analyze ==
    /\ pc = "analyze"
    /\ LET r == analyze_forecast(data, cfg, today)
           body == format_message(r.good_runs, r.ordered, cfg)
           to == Branch(r.good_runs, dry_run)
       IN  IF r.raised # None
           THEN /\ raised' = r.raised
                /\ UNCHANGED <<ordered, runs, good_runs, stdout>>
                /\ Exit(1)
           ELSE /\ raised' = None
                /\ ordered' = r.ordered
                /\ runs' = r.runs
                /\ good_runs' = r.good_runs
                /\ CASE to = "summary" ->
                          /\ stdout' = stdout \o SummaryLines(r.ordered)
                          /\ Exit(0)
                     [] to = "print" ->
                          /\ stdout' = stdout \o <<Printed(Subject, None), Printed("body", body)>>
                          /\ Exit(0)
                     [] to = "send" ->
                          /\ pc' = "send_email"
                          /\ UNCHANGED <<stdout, exit_code>>
    /\ UNCHANGED <<inputVars, data, fetched, smtpVars>>

\* ------------------------------------------------------------------------
\* send_email, and main's handling of its outcome (lines 162 - 167)
\* ------------------------------------------------------------------------
\* Python's `not x` on an optional string.
Not(x) == x = None \/ x = ""

\* Line 117.
MissingConfigNoTo(c) == Not(c.SMTP_HOST) \/ Not(c.EMAIL_FROM)

MissingConfig(c) == Not(c.SMTP_HOST) \/ Not(c.EMAIL_FROM) \/ Not(c.EMAIL_TO)

\* send_email raised: lines 165 - 167.
SendFailed ==
    /\ stdout' = Append(stdout, Printed("Failed to send email:", None))
    /\ Exit(3)

\* send_email returned: line 164.
SendReturned ==
    /\ stdout' = Append(stdout, Printed("Alert email sent to", cfg.EMAIL_TO))
    /\ Exit(0)

Log(op, outcome) == smtp_log' = Append(smtp_log, <<op, outcome>>)

\* Lines 163, 107 - 118: the call, the message, the check of the settings.
SendEmailCall ==
    /\ pc = "send_email"
    /\ send_calls' = send_calls + 1
    /\ msg' = [Subject |-> Subject, From |-> cfg.EMAIL_FROM, To |-> cfg.EMAIL_TO,
               content |-> format_message(good_runs, ordered, cfg)]
    /\ IF MissingConfig(cfg)
       THEN SendFailed
       ELSE pc' = "connect" /\ UNCHANGED <<stdout, exit_code>>
    /\ UNCHANGED <<inputVars, data, fetched, analysisVars, conn, tls, smtp_log,
                   pending, delivered>>

\* Line 120: smtplib.SMTP(host, port, timeout=30) connects.
ConnectOk ==
    /\ pc = "connect"
    /\ conn' = "open"
    /\ Log("connect", "ok")
    /\ pc' = "ehlo"
    /\ UNCHANGED <<inputVars, data, fetched, analysisVars, stdout, exit_code,
                   send_calls, msg, tls, pending, delivered>>

\* Line 120: the constructor fails (refused, timeout, not a 220 greeting);
\* it closes its socket before raising, and the with block is not entered.
ConnectFail ==
    /\ pc = "connect"
    /\ conn' = "closed"
    /\ Log("connect", "failed")
    /\ SendFailed
    /\ UNCHANGED <<inputVars, data, fetched, analysisVars, send_calls, msg, tls,
                   pending, delivered>>

\* Lines 130 - 132: login only with both a user and a password.
AfterHandshake(c) ==
    IF ~Not(c.SMTP_USER) /\ ~Not(c.SMTP_PASSWORD) THEN "login" ELSE "send_message"

\* Lines 127 - 129: except Exception: pass.
HandshakeAborts(c, e) == [pc |-> "smtp_exit", pending |-> e]

HandshakeError(c, e) == [pc |-> AfterHandshake(c), pending |-> None]

\* Line 124: s.has_extn('starttls').
StartTlsAlways(advertised) == TRUE

has_extn_starttls(advertised) == advertised

\* Lines 123, 124: EHLO answered, with or without STARTTLS among the extensions.
EhloOk ==
    /\ pc = "ehlo"
    /\ \E advertised \in BOOLEAN :
          /\ Log("ehlo", IF advertised THEN "starttls" ELSE "plain")
          /\ pc' = IF has_extn_starttls(advertised) THEN "starttls" ELSE AfterHandshake(cfg)
    /\ UNCHANGED <<inputVars, data, fetched, analysisVars, stdout, exit_code,
                   send_calls, msg, conn, tls, pending, delivered>>

\* Line 123 raises.
EhloFail ==
    /\ pc = "ehlo"
    /\ Log("ehlo", "failed")
    /\ LET h == HandshakeError(cfg, "SMTPException")
       IN  pc' = h.pc /\ pending' = h.pending
    /\ UNCHANGED <<inputVars, data, fetched, analysisVars, stdout, exit_code,
                   send_calls, msg, conn, tls, delivered>>

\* Line 125: the upgrade succeeds.
StartTlsOk ==
    /\ pc = "starttls"
    /\ Log("starttls", "ok")
    /\ tls' = TRUE
    /\ pc' = "ehlo2"
    /\ UNCHANGED <<inputVars, data, fetched, analysisVars, stdout, exit_code,
                   send_calls, msg, conn, pending, delivered>>

\* Line 125 raises.
StartTlsFail ==
    /\ pc = "starttls"
    /\ Log("starttls", "failed")
    /\ LET h == HandshakeError(cfg, "SMTPException")
       IN  pc' = h.pc /\ pending' = h.pending
    /\ UNCHANGED <<inputVars, data, fetched, analysisVars, stdout, exit_code,
                   send_calls, msg, conn, tls, delivered>>

\* Line 126: the EHLO over the encrypted connection.
Ehlo2Ok ==
    /\ pc = "ehlo2"
    /\ Log("ehlo2", "ok")
    /\ pc' = AfterHandshake(cfg)
    /\ UNCHANGED <<inputVars, data, fetched, analysisVars, stdout, exit_code,
                   send_calls, msg, conn, tls, pending, delivered>>

Ehlo2Fail ==
    /\ pc = "ehlo2"
    /\ Log("ehlo2", "failed")
    /\ LET h == HandshakeError(cfg, "SMTPException")
       IN  pc' = h.pc /\ pending' = h.pending
    /\ UNCHANGED <<inputVars, data, fetched, analysisVars, stdout, exit_code,
                   send_calls, msg, conn, tls, delivered>>

\* Line 131.
LoginOk ==
    /\ pc = "login"
    /\ Log("login", "ok")
    /\ pc' = "send_message"
    /\ UNCHANGED <<inputVars, data, fetched, analysisVars, stdout, exit_code,
                   send_calls, msg, conn, tls, pending, delivered>>

LoginFail ==
    /\ pc = "login"
    /\ Log("login", "failed")
    /\ pending' = "SMTPAuthenticationError"
    /\ pc' = "smtp_exit"
    /\ UNCHANGED <<inputVars, data, fetched, analysisVars, stdout, exit_code,
                   send_calls, msg, conn, tls, delivered>>

\* Line 132.
SendMessageOk ==
    /\ pc = "send_message"
    /\ Log("send_message", "ok")
    /\ delivered' = TRUE
    /\ pc' = "smtp_exit"
    /\ UNCHANGED <<inputVars, data, fetched, analysisVars, stdout, exit_code,
                   send_calls, msg, conn, tls, pending>>

SendMessageFail ==
    /\ pc = "send_message"
    /\ Log("send_message", "failed")
    /\ pending' = "SMTPException"
    /\ pc' = "smtp_exit"
    /\ UNCHANGED <<inputVars, data, fetched, analysisVars, stdout, exit_code,
                   send_calls, msg, conn, tls, delivered>>

\* SMTP.__exit__ at the end of the with block (line 120): QUIT, then close()
\* in a finally clause.
LeaksOnError(e) == IF e = None THEN "closed" ELSE "open"

ConnAfterExit(e) == "closed"

\* The with block is left, normally or by an exception; a QUIT that the
\* server does not answer with 221 raises in its turn.
SmtpExit ==
    /\ pc = "smtp_exit"
    /\ conn' = ConnAfterExit(pending)
    /\ \E quit \in {"ok", "failed"} :
          /\ Log("quit", quit)
          /\ IF pending = None /\ quit = "ok" THEN SendReturned ELSE SendFailed
    /\ UNCHANGED <<inputVars, data, fetched, analysisVars, send_calls, msg, tls,
                   pending, delivered>>

Next ==
    \/ FetchFail
    \/ FetchOk
    \/ Analyze
    \/ SendEmailCall
    \/ ConnectOk
    \/ ConnectFail
    \/ EhloOk
    \/ EhloFail
    \/ StartTlsOk
    \/ StartTlsFail
    \/ Ehlo2Ok
    \/ Ehlo2Fail
    \/ LoginOk
    \/ LoginFail
    \/ SendMessageOk
    \/ SendMessageFail
    \/ SmtpExit

Spec == Init /\ [][Next]_vars

\* ------------------------------------------------------------------------
\* Properties of analyze_forecast (checked under SpecAnalyze)
\* ------------------------------------------------------------------------
\* The two arrays of the input, and the positions holding a reading (a
\* timestamp with its speed).
InTimes == IF "hourly" \in DOMAIN data /\ "time" \in DOMAIN data.hourly
           THEN data.hourly.time ELSE <<>>
InSpeeds == IF "hourly" \in DOMAIN data /\ "windspeed_10m" \in DOMAIN data.hourly
            THEN data.hourly.windspeed_10m ELSE <<>>
ReadingIdx == { k \in 1..Len(InTimes) : k <= Len(InSpeeds) }
ReadingsOn(date) == { k \in ReadingIdx : InTimes[k] \div 24 = date }
Returned == pc = "returned" /\ raised = None
Counts == [i \in 1..Len(ordered) |-> ordered[i][2]]
Window == { today + (i - 1) : i \in 1..cfg.FORECAST_DAYS }

\* C1: for every FORECAST_DAYS = N and every non-empty hourly input, the
\* call returns without error, `ordered` has exactly N entries, entry i (from
\* 0) carries the date today + i, and a window date without a reading in the
\* input has count 0.
C1_OrderedSpansWindow ==
    (pc = "returned" /\ Len(InTimes) > 0 /\ Len(InSpeeds) > 0) =>
        /\ raised = None
        /\ Len(ordered) = cfg.FORECAST_DAYS
        /\ \A i \in 1..Len(ordered) :
              /\ ordered[i][1] = today + (i - 1)
              /\ ReadingsOn(today + (i - 1)) = {} => ordered[i][2] = 0
        /\ \A i, j \in 1..Len(ordered) : i < j => ordered[i][1] < ordered[j][1]

\* A call on an input with a reading outside the window and a window date
\* without any reading has returned.
C1_Witness ==
    /\ Returned
    /\ \E k \in ReadingIdx : InTimes[k] \div 24 \notin Window
    /\ \E d \in Window : ReadingsOn(d) = {}
    /\ Len(ordered) = cfg.FORECAST_DAYS

\* The maximal blocks <<first, last>> of positions of `ordered` whose days
\* all have at least MIN_HOURS_PER_DAY good hours.
GoodDay(i) == ordered[i][2] >= cfg.MIN_HOURS_PER_DAY
Blocks ==
    { b \in (1..Len(ordered)) \X (1..Len(ordered)) :
        /\ b[1] <= b[2]
        /\ \A i \in b[1]..b[2] : GoodDay(i)
        /\ b[1] = 1 \/ ~GoodDay(b[1] - 1)
        /\ b[2] = Len(ordered) \/ ~GoodDay(b[2] + 1) }
FirstDate(run) == run[1][1]
LastDate(run) == run[Len(run)][1]

\* C2: `runs` are exactly the maximal contiguous blocks of `ordered` whose
\* days all have count >= MIN_HOURS_PER_DAY, in calendar order, and
\* `good_runs` is exactly the sub-list of the runs of length >=
\* REQUIRED_CONSECUTIVE_DAYS; counts 7, 8, 0, 9, 10, 0, 0 with minimum 6 and
\* required 2 give the runs (day0, day1) and (day3, day4), both good.
C2_RunsAreMaximalBlocks ==
    Returned =>
        /\ Len(runs) = Cardinality(Blocks)
        /\ \A k \in 1..Len(runs) :
              \E b \in Blocks : runs[k] = SubSeq(ordered, b[1], b[2])
        /\ \A k \in 1..(Len(runs) - 1) : LastDate(runs[k]) < FirstDate(runs[k + 1])
        /\ Len(good_runs) =
              Cardinality({ k \in 1..Len(runs) : Len(runs[k]) >= cfg.REQUIRED_CONSECUTIVE_DAYS })
        /\ \A j \in 1..Len(good_runs) :
              /\ Len(good_runs[j]) >= cfg.REQUIRED_CONSECUTIVE_DAYS
              /\ \E k \in 1..Len(runs) : good_runs[j] = runs[k]
        /\ \A j \in 1..(Len(good_runs) - 1) :
              LastDate(good_runs[j]) < FirstDate(good_runs[j + 1])
        /\ (Counts = ExampleCounts /\ cfg.MIN_HOURS_PER_DAY = 6
                /\ cfg.REQUIRED_CONSECUTIVE_DAYS = 2) =>
              /\ runs = <<SubSeq(ordered, 1, 2), SubSeq(ordered, 4, 5)>>
              /\ good_runs = runs

\* The week of the example has been analysed.
C2_Witness ==
    /\ Returned
    /\ Counts = ExampleCounts
    /\ cfg.MIN_HOURS_PER_DAY = 6
    /\ Len(runs) = 2
    /\ Len(good_runs) = 2

\* min <= knots <= max, both ends included.
InWindow(kts) ==
    /\ kts.whole > cfg.MIN_WIND_KNOTS.whole
          \/ (kts.whole = cfg.MIN_WIND_KNOTS.whole /\ kts.frac >= cfg.MIN_WIND_KNOTS.frac)
    /\ kts.whole < cfg.MAX_WIND_KNOTS.whole
          \/ (kts.whole = cfg.MAX_WIND_KNOTS.whole /\ kts.frac <= cfg.MAX_WIND_KNOTS.frac)

\* C3: the count of a window date d is the number of readings whose
\* timestamp falls on d and whose speed in knots is between MIN_WIND_KNOTS
\* and MAX_WIND_KNOTS, both included; a date whose readings are all outside
\* gets 0.
C3_CountsQualifyingReadings ==
    Returned =>
        \A i \in 1..Len(ordered) :
            ordered[i][2] =
                Cardinality({ k \in ReadingsOn(ordered[i][1]) :
                                InWindow(mps_to_knots(InSpeeds[k])) })

\* A reading exactly at MAX_WIND_KNOTS and one exactly at MIN_WIND_KNOTS, on
\* the same window date, have both been counted.
C3_Witness ==
    /\ Returned
    /\ \E i \in 1..Len(ordered) :
          /\ \E k \in ReadingsOn(ordered[i][1]) :
                mps_to_knots(InSpeeds[k]) = cfg.MAX_WIND_KNOTS
          /\ \E k \in ReadingsOn(ordered[i][1]) :
                mps_to_knots(InSpeeds[k]) = cfg.MIN_WIND_KNOTS
          /\ ordered[i][2] = 2

\* C7: analyze_forecast raises its no-data error exactly when the input
\* holds no reading (no timestamp with a speed), and raises nothing else; an
\* input in which no day qualifies returns with no runs and no good runs.
C7_RaisesOnlyWithoutData ==
    pc = "returned" =>
        /\ raised \in {None, "ValueError"}
        /\ raised = "ValueError" <=> ReadingIdx = {}
        /\ (raised = None /\ \A i \in 1..Len(ordered) : ~GoodDay(i)) =>
              runs = <<>> /\ good_runs = <<>>

\* An input with readings, none of them good, has been analysed.
C7_Witness ==
    /\ Returned
    /\ ReadingIdx # {}
    /\ Len(ordered) > 0
    /\ \A i \in 1..Len(ordered) : ordered[i][2] = 0
    /\ runs = <<>>
    /\ good_runs = <<>>

\* ------------------------------------------------------------------------
\* Properties of main and send_email (checked under Spec)
\* ------------------------------------------------------------------------
Done == pc = "done"
FetchSucceeded == fetched = "ok"
Analysed == raised = None
LogHas(op, outcome) == \E k \in 1..Len(smtp_log) : smtp_log[k] = <<op, outcome>>
LogCount(op) == Cardinality({ k \in 1..Len(smtp_log) : smtp_log[k][1] = op })
LastPrinted == stdout[Len(stdout)].text

\* C4: every run of main ends in one of three outcomes: the fetch failed and
\* the status is 2, with no analysis and no notification; the fetch
\* succeeded, there is no good run, the summary is printed and the status
\* is 0; there are good runs, and the report is printed (dry run) or sent
\* with status 0, or the send failed with status 3.
C4_ThreeOutcomes ==
    Done =>
        \/ /\ fetched = "failed"
           /\ exit_code = 2
           /\ raised = "pending"
           /\ send_calls = 0
        \/ /\ FetchSucceeded /\ Analysed /\ good_runs = <<>>
           /\ exit_code = 0
           /\ stdout[1].text = "No suitable runs found. Summary:"
           /\ send_calls = 0
        \/ /\ FetchSucceeded /\ Analysed /\ good_runs # <<>>
           /\ IF dry_run
              THEN exit_code = 0 /\ stdout[1].text = Subject /\ send_calls = 0
              ELSE /\ send_calls = 1
                   /\ exit_code \in {0, 3}
                   /\ exit_code = 0 => delivered /\ LastPrinted = "Alert email sent to"
                   /\ exit_code = 3 => LastPrinted = "Failed to send email:"

\* C5: a fetch that succeeds with empty or missing hourly arrays ends the
\* run as a fetch failure: a failure message is printed and the status is 2.
C5_NoDataIsFetchFailure ==
    (Done /\ FetchSucceeded /\ ReadingIdx = {}) =>
        /\ exit_code = 2
        /\ stdout # <<>>
        /\ LastPrinted = "Failed to fetch forecast:"

\* C6: send_email is invoked at most once and never retried; it is invoked
\* exactly once iff the fetch succeeded, there is a good run and the run is
\* not a dry run; a dry run never invokes it, and prints the subject and the
\* body instead.
C6_OneNotification ==
    /\ send_calls <= 1
    /\ LogCount("connect") <= 1
    /\ dry_run => send_calls = 0 /\ smtp_log = <<>>
    /\ Done =>
          (send_calls = 1 <=>
              (FetchSucceeded /\ Analysed /\ good_runs # <<>> /\ ~dry_run))
    /\ (Done /\ dry_run /\ FetchSucceeded /\ Analysed /\ good_runs # <<>>) =>
          /\ Len(stdout) = 2
          /\ stdout[1].text = Subject
          /\ stdout[2].arg.summary = ordered
          /\ Len(stdout[2].arg.matching) = Len(good_runs)
          /\ \A j \in 1..Len(good_runs) :
                stdout[2].arg.matching[j] =
                    [start |-> FirstDate(good_runs[j]), end |-> LastDate(good_runs[j]),
                     days |-> Len(good_runs[j])]

\* A dry run with a good run has ended.
C6_Witness ==
    /\ Done
    /\ dry_run
    /\ good_runs # <<>>
    /\ send_calls = 0
    /\ Len(stdout) = 2

\* C8: a send_email call with SMTP_HOST, EMAIL_FROM or EMAIL_TO absent fails
\* before any SMTP connection is opened (no connect, EHLO, STARTTLS, login or
\* send), and main ends with status 3.
C8_MissingConfigFailsFast ==
    (send_calls >= 1
        /\ (cfg.SMTP_HOST = None \/ cfg.EMAIL_FROM = None \/ cfg.EMAIL_TO = None)) =>
        /\ Done
        /\ exit_code = 3
        /\ LastPrinted = "Failed to send email:"
        /\ smtp_log = <<>>
        /\ conn = "none"
        /\ ~delivered

\* send_email has been called with only EMAIL_TO absent.
C8_Witness ==
    /\ send_calls = 1
    /\ cfg.EMAIL_TO = None
    /\ cfg.SMTP_HOST # None
    /\ cfg.EMAIL_FROM # None
    /\ exit_code = 3

\* C9: every SMTP connection send_email opens is closed before send_email
\* returns or raises, on every path; a connection carries at most one
\* send_message; main never ends with a connection open.
C9_ConnectionClosed ==
    /\ conn = "open" => pc \in {"ehlo", "starttls", "ehlo2", "login", "send_message", "smtp_exit"}
    /\ Done => conn # "open"
    /\ (Done /\ LogHas("connect", "ok")) =>
          conn = "closed" /\ smtp_log[Len(smtp_log)][1] = "quit"
    /\ LogCount("send_message") <= 1

\* A session whose login was rejected has ended, closed.
C9_Witness ==
    /\ Done
    /\ LogHas("login", "failed")
    /\ conn = "closed"
    /\ exit_code = 3

\* The step after the handshake: login with both a user and a password,
\* send_message otherwise.
NextStep == IF cfg.SMTP_USER # None /\ cfg.SMTP_PASSWORD # None THEN "login" ELSE "send_message"
FollowedBy(k, step) ==
    IF k < Len(smtp_log) THEN smtp_log[k + 1][1] = step ELSE pc = step

\* C10: STARTTLS is attempted only after an EHLO answer advertising it; a
\* failure of EHLO or of the STARTTLS negotiation does not abort the session:
\* the call goes on to the login step (taken only with both a user and a
\* password) and then to send_message.
C10_OpportunisticTls ==
    \A k \in 1..Len(smtp_log) :
        /\ smtp_log[k][1] = "starttls" => (k > 1 /\ smtp_log[k - 1] = <<"ehlo", "starttls">>)
        /\ smtp_log[k] \in {<<"ehlo", "failed">>, <<"starttls", "failed">>, <<"ehlo2", "failed">>}
              => FollowedBy(k, NextStep)
        /\ smtp_log[k][1] = "login" => NextStep = "login"
        /\ smtp_log[k] = <<"login", "ok">> => FollowedBy(k, "send_message")
        /\ (smtp_log[k][1] = "send_message" /\ NextStep = "login")
              => smtp_log[k - 1] = <<"login", "ok">>

\* The message has been accepted on a connection whose upgrade failed.
C10_Witness ==
    /\ LogHas("starttls", "failed")
    /\ LogHas("send_message", "ok")
    /\ delivered
    /\ ~tls
====
